---- MODULE Spec2Model ----
(***************************************************************************)
(* A model of src/app.py: the Lambda handler lambda_handler(event,         *)
(* context), which logs the event, creates an S3 client, calls             *)
(* list_buckets and turns the result (or the exception) into an envelope   *)
(* {statusCode, body} whose body is json.dumps of a dict.                  *)
(*                                                                         *)
(* Python str values are sequences of Unicode code points (naturals), so   *)
(* that json.dumps and json.loads are computed character by character.     *)
(***************************************************************************)
EXTENDS Integers, Sequences, FiniteSets, TLC

\* ------------------------------------------------------------ bounds

\* The longest Buckets list the list_buckets call returns in the model.
MaxBuckets == 2

\* ------------------------------------------------------------ Python values

PyStr(s) == [t |-> "str", v |-> s]

PyList(xs) == [t |-> "list", v |-> xs]

\* A dict: its items <<key, value>> in insertion order, keys being str.
PyDict(items) == [t |-> "dict", v |-> items]

\* A bytes object: the one kind of value here that json.dumps refuses.
PyBytes == [t |-> "bytes", v |-> <<>>]

PyNone == [t |-> "none", v |-> <<>>]

\* A local variable that has not been assigned.
Unset == [t |-> "unset", v |-> <<>>]

DictHas(d, k) == \E i \in 1..Len(d.v) : d.v[i][1] = k

\* d[k], for a key d has.
DictGet(d, k) == d.v[CHOOSE i \in 1..Len(d.v) : d.v[i][1] = k][2]

DictKeys(d) == {d.v[i][1] : i \in 1..Len(d.v)}

\* d with d[k] = x: an existing key keeps its place, a new one goes last.
DictPut(d, k, x) ==
    IF DictHas(d, k)
    THEN PyDict([i \in 1..Len(d.v) |-> IF d.v[i][1] = k THEN <<k, x>> ELSE d.v[i]])
    ELSE PyDict(Append(d.v, <<k, x>>))

\* repr() of a str key without quotes or escapes in it, as str(KeyError(k)) gives it.
Repr(k) == <<39>> \o k \o <<39>>

\* ------------------------------------------------------------ string constants

\* 'Successfully retrieved buckets'
SuccessMsg == <<83, 117, 99, 99, 101, 115, 115, 102, 117, 108, 108, 121, 32, 114,
                101, 116, 114, 105, 101, 118, 101, 100, 32, 98, 117, 99, 107, 101,
                116, 115>>

\* 'Error listing buckets: '
ErrorPrefix == <<69, 114, 114, 111, 114, 32, 108, 105, 115, 116, 105, 110, 103, 32,
                 98, 117, 99, 107, 101, 116, 115, 58, 32>>

\* 'Received event:' and the separator print() puts between its arguments
ReceivedPrefix == <<82, 101, 99, 101, 105, 118, 101, 100, 32, 101, 118, 101, 110,
                    116, 58, 32>>

\* 'message'
K_message == <<109, 101, 115, 115, 97, 103, 101>>

\* 'buckets'
K_buckets == <<98, 117, 99, 107, 101, 116, 115>>

\* 'Name'
K_Name == <<78, 97, 109, 101>>

\* 'Buckets'
K_Buckets == <<66, 117, 99, 107, 101, 116, 115>>

\* 'Owner'
K_Owner == <<79, 119, 110, 101, 114>>

\* ------------------------------------------------------------ json.dumps

HexDigit(d) == IF d < 10 THEN 48 + d ELSE 87 + d

\* '{0:04x}'.format(n)
Hex4(n) == <<HexDigit(n \div 4096), HexDigit((n \div 256) % 16),
             HexDigit((n \div 16) % 16), HexDigit(n % 16)>>

\* \uXXXX
UEscape(n) == <<92, 117>> \o Hex4(n)

\* One character as json.dumps (ensure_ascii=True) writes it inside a string.
EscChar(c) ==
    CASE c = 34 -> <<92, 34>>
      [] c = 92 -> <<92, 92>>
      [] c = 10 -> <<92, 110>>
      [] c = 13 -> <<92, 114>>
      [] c = 9 -> <<92, 116>>
      [] c = 8 -> <<92, 98>>
      [] c = 12 -> <<92, 102>>
      [] c \notin {34, 92, 10, 13, 9, 8, 12} /\ c >= 32 /\ c <= 126 -> <<c>>
      [] c \notin {10, 13, 9, 8, 12} /\ (c < 32 \/ c > 126) /\ c < 65536 -> UEscape(c)
      [] c >= 65536 ->
           UEscape(55296 + ((c - 65536) \div 1024)) \o UEscape(56320 + ((c - 65536) % 1024))

RECURSIVE EscRange(_, _, _)
\* The characters lo..hi of s, each as json.dumps writes it.
EscRange(s, lo, hi) ==
    IF lo > hi THEN <<>>
    ELSE IF lo = hi THEN EscChar(s[lo])
    ELSE EscRange(s, lo, (lo + hi) \div 2) \o EscRange(s, (lo + hi) \div 2 + 1, hi)

EscChars(s) == EscRange(s, 1, Len(s))

\* A str without its escapes, between quotes: what '"' + s + '"' builds.
EncStrRaw(s) == <<34>> \o s \o <<34>>

\* A str as a JSON string.
EncStr(s) == <<34>> \o EscChars(s) \o <<34>>

RECURSIVE Encodable(_)
\* Whether json.dumps accepts the value (it raises TypeError on bytes).
Encodable(x) ==
    CASE x.t = "str" -> TRUE
      [] x.t = "list" -> \A i \in 1..Len(x.v) : Encodable(x.v[i])
      [] x.t = "dict" -> \A i \in 1..Len(x.v) : Encodable(x.v[i][2])
      [] OTHER -> FALSE

\* indent spaces per level times level
Spaces(n) == [i \in 1..n |-> 32]

\* What separates two items: ', ' without indent, ',' and a new line with it.
ItemSep(indent, level) ==
    IF indent = 0 THEN <<44, 32>> ELSE <<44, 10>> \o Spaces(indent * level)

\* What follows the opening bracket (and, one level out, precedes the closing one).
Break(indent, level) ==
    IF indent = 0 THEN <<>> ELSE <<10>> \o Spaces(indent * level)

RECURSIVE Dumps(_, _, _), DumpElems(_, _, _, _), DumpItems(_, _, _, _)
\* json.dumps(x, indent=indent) of an encodable value nested `level` deep;
\* indent = 0 stands for indent=None.
Dumps(x, indent, level) ==
    CASE x.t = "str" -> EncStr(x.v)
      [] x.t = "list" ->
           IF x.v = <<>> THEN <<91, 93>>
           ELSE <<91>> \o Break(indent, level + 1) \o DumpElems(x.v, 1, indent, level + 1)
                \o Break(indent, level) \o <<93>>
      [] x.t = "dict" ->
           IF x.v = <<>> THEN <<123, 125>>
           ELSE <<123>> \o Break(indent, level + 1) \o DumpItems(x.v, 1, indent, level + 1)
                \o Break(indent, level) \o <<125>>

DumpElems(xs, i, indent, level) ==
    Dumps(xs[i], indent, level)
    \o (IF i = Len(xs) THEN <<>>
        ELSE ItemSep(indent, level) \o DumpElems(xs, i + 1, indent, level))

DumpItems(xs, i, indent, level) ==
    EncStr(xs[i][1]) \o <<58, 32>> \o Dumps(xs[i][2], indent, level)
    \o (IF i = Len(xs) THEN <<>>
        ELSE ItemSep(indent, level) \o DumpItems(xs, i + 1, indent, level))

\* json.dumps(x)
JsonDumps(x) == Dumps(x, 0, 0)

\* json.dumps(x, indent=2)
JsonDumpsIndent2(x) == Dumps(x, 2, 0)

\* ------------------------------------------------------------ json.loads

ParseFail == [ok |-> FALSE, val |-> PyNone, pos |-> 0]

IsWs(c) == c \in {32, 9, 10, 13}

RECURSIVE SkipWs(_, _)
\* The first position at or after i that holds no white space.
SkipWs(t, i) == IF i <= Len(t) /\ IsWs(t[i]) THEN SkipWs(t, i + 1) ELSE i

HexVal(c) ==
    CASE c >= 48 /\ c <= 57 -> c - 48
      [] c >= 97 /\ c <= 102 -> c - 87
      [] c >= 65 /\ c <= 70 -> c - 55
      [] OTHER -> -1

\* Whether four hex digits stand at i.
HasHex4(t, i) == i + 3 <= Len(t) /\ \A k \in 0..3 : HexVal(t[i + k]) >= 0

ReadHex4(t, i) ==
    HexVal(t[i]) * 4096 + HexVal(t[i + 1]) * 256 + HexVal(t[i + 2]) * 16 + HexVal(t[i + 3])

\* The character a one-letter escape stands for, -1 for none.
Unescape(c) ==
    CASE c = 34 -> 34
      [] c = 92 -> 92
      [] c = 47 -> 47
      [] c = 98 -> 8
      [] c = 102 -> 12
      [] c = 110 -> 10
      [] c = 114 -> 13
      [] c = 116 -> 9
      [] OTHER -> -1

\* Whether a low surrogate's \uXXXX stands at i.
HasLowSurrogate(t, i) ==
    /\ i + 5 <= Len(t)
    /\ t[i] = 92
    /\ t[i + 1] = 117
    /\ HasHex4(t, i + 2)
    /\ ReadHex4(t, i + 2) >= 56320
    /\ ReadHex4(t, i + 2) <= 57343

\* The first position at or after i that holds a quote, a backslash or a control
\* character, Len(t) + 1 for none: where the scanner's chunk of plain
\* characters ends.
ChunkEnd(t, i) ==
    LET stops == {j \in i..Len(t) : t[j] = 34 \/ t[j] = 92 \/ t[j] < 32}
    IN  IF stops = {} THEN Len(t) + 1
        ELSE CHOOSE j \in stops : \A k \in stops : j <= k

RECURSIVE ScanString(_, _, _)
\* The str whose characters start at i, after the opening quote, chunk by chunk
\* (strict mode: a raw control character ends the parse).
ScanString(t, i, acc) ==
    LET j == ChunkEnd(t, i)
        chunk == acc \o SubSeq(t, i, j - 1)
    IN  IF j > Len(t) THEN ParseFail
        ELSE IF t[j] = 34 THEN [ok |-> TRUE, val |-> chunk, pos |-> j + 1]
        ELSE IF t[j] < 32 THEN ParseFail
        ELSE IF j + 1 > Len(t) THEN ParseFail
        ELSE IF t[j + 1] = 117 THEN
            IF ~HasHex4(t, j + 2) THEN ParseFail
            ELSE LET u == ReadHex4(t, j + 2)
                 IN  IF u >= 55296 /\ u <= 56319 /\ HasLowSurrogate(t, j + 6)
                     THEN ScanString(t, j + 12,
                            Append(chunk, 65536 + (u - 55296) * 1024
                                                + (ReadHex4(t, j + 8) - 56320)))
                     ELSE ScanString(t, j + 6, Append(chunk, u))
        ELSE IF Unescape(t[j + 1]) < 0 THEN ParseFail
        ELSE ScanString(t, j + 2, Append(chunk, Unescape(t[j + 1])))

RECURSIVE ParseValue(_, _), ParseElems(_, _, _), ParseMembers(_, _, _)
\* The value that starts at i (white space skipped): a string, an array or an
\* object, the kinds of value the handler's bodies are made of.
ParseValue(t, i) ==
    LET j == SkipWs(t, i)
    IN  IF j > Len(t) THEN ParseFail
        ELSE IF t[j] = 34 THEN
            LET s == ScanString(t, j + 1, <<>>)
            IN  IF s.ok THEN [ok |-> TRUE, val |-> PyStr(s.val), pos |-> s.pos]
                ELSE ParseFail
        ELSE IF t[j] = 91 THEN
            LET k == SkipWs(t, j + 1)
            IN  IF k <= Len(t) /\ t[k] = 93
                THEN [ok |-> TRUE, val |-> PyList(<<>>), pos |-> k + 1]
                ELSE ParseElems(t, k, <<>>)
        ELSE IF t[j] = 123 THEN
            LET k == SkipWs(t, j + 1)
            IN  IF k <= Len(t) /\ t[k] = 125
                THEN [ok |-> TRUE, val |-> PyDict(<<>>), pos |-> k + 1]
                ELSE ParseMembers(t, k, PyDict(<<>>))
        ELSE ParseFail

\* The rest of an array, acc being the elements read so far.
ParseElems(t, i, acc) ==
    LET r == ParseValue(t, i)
        k == SkipWs(t, r.pos)
    IN  IF ~r.ok \/ k > Len(t) THEN ParseFail
        ELSE IF t[k] = 44 THEN ParseElems(t, k + 1, Append(acc, r.val))
        ELSE IF t[k] = 93
        THEN [ok |-> TRUE, val |-> PyList(Append(acc, r.val)), pos |-> k + 1]
        ELSE ParseFail

\* The rest of an object, acc being the dict read so far (a repeated key keeps
\* its last value).
ParseMembers(t, i, acc) ==
    LET j == SkipWs(t, i)
    IN  IF j > Len(t) \/ t[j] # 34 THEN ParseFail
        ELSE LET s == ScanString(t, j + 1, <<>>)
                 c == SkipWs(t, s.pos)
             IN  IF ~s.ok \/ c > Len(t) \/ t[c] # 58 THEN ParseFail
                 ELSE LET r == ParseValue(t, c + 1)
                          k == SkipWs(t, r.pos)
                      IN  IF ~r.ok \/ k > Len(t) THEN ParseFail
                          ELSE IF t[k] = 44
                          THEN ParseMembers(t, k + 1, DictPut(acc, s.val, r.val))
                          ELSE IF t[k] = 125
                          THEN [ok |-> TRUE, val |-> DictPut(acc, s.val, r.val),
                                pos |-> k + 1]
                          ELSE ParseFail

\* json.loads(t): ok is FALSE where it raises JSONDecodeError.
JsonLoads(t) ==
    LET r == ParseValue(t, 1)
    IN  IF r.ok /\ SkipWs(t, r.pos) > Len(t) THEN r ELSE ParseFail

\* ------------------------------------------------------------ exceptions

\* The exception classes that occur, all of them subclasses of Exception.
ExceptionClasses ==
    {"ClientError", "EndpointConnectionError", "ReadTimeoutError", "NoRegionError",
     "KeyError", "TypeError"}

Exc(cls, text) == [cls |-> cls, text |-> text]

NoExc == [cls |-> "", text |-> <<>>]

\* str(e)
Str(exc) == exc.text

\* Only botocore's ClientError is caught.
CatchesClientErrorOnly(cls) == cls = "ClientError"

\* `except Exception`: whether the clause catches an exception of class cls.
Catches(cls) == cls \in ExceptionClasses

\* KeyError(k), whose str() is repr(k)
KeyErr(k) == Exc("KeyError", Repr(k))

\* TypeError('Object of type bytes is not JSON serializable'), from json.dumps
TypeErr ==
    Exc("TypeError",
        <<79, 98, 106, 101, 99, 116, 32, 111, 102, 32, 116, 121, 112, 101, 32, 98, 121,
          116, 101, 115, 32, 105, 115, 32, 110, 111, 116, 32, 74, 83, 79, 78, 32, 115,
          101, 114, 105, 97, 108, 105, 122, 97, 98, 108, 101>>)

\* ------------------------------------------------------------ inputs

\* 'a'
N_a == <<97>>

\* 'b', a double quote, a backslash, e-acute, U+1F600 and a new line
N_x == <<98, 34, 92, 233, 128512, 10>>

Names == {N_a, N_x}

\* One record of Buckets, with its Name and another field.
Rec(n) == PyDict(<< <<K_Name, PyStr(n)>>, <<K_Owner, PyStr(N_a)>> >>)

\* A record without Name.
RecNoName == PyDict(<< <<K_Owner, PyStr(N_a)>> >>)

\* A record whose Name json.dumps refuses.
RecBytesName == PyDict(<< <<K_Name, PyBytes>> >>)

Records == {Rec(n) : n \in Names} \cup {RecNoName, RecBytesName}

SeqsUpTo(S, n) == UNION {[1..k -> S] : k \in 0..n}

\* What list_buckets returns: {'Buckets': [...], 'Owner': ...}, or a dict
\* without Buckets.
Responses ==
    {PyDict(<< <<K_Buckets, PyList(rs)>>, <<K_Owner, PyStr(N_a)>> >>) :
        rs \in SeqsUpTo(Records, MaxBuckets)}
    \cup {PyDict(<< <<K_Owner, PyStr(N_a)>> >>)}

\* What list_buckets raises: 'AccessDenied', 'Could not connect to "s3"', and a
\* text with characters json.dumps escapes.
Failures ==
    {Exc("ClientError", <<65, 99, 99, 101, 115, 115, 68, 101, 110, 105, 101, 100>>),
     Exc("EndpointConnectionError",
         <<67, 111, 117, 108, 100, 32, 110, 111, 116, 32, 99, 111, 110, 110, 101, 99,
           116, 32, 116, 111, 32, 34, 115, 51, 34>>),
     Exc("ReadTimeoutError", N_x)}

\* What the list_buckets call of one invocation did.
NotCalled == [kind |-> "none", response |-> PyNone, exc |-> NoExc]

Returned(r) == [kind |-> "ok", response |-> r, exc |-> NoExc]

Raised(x) == [kind |-> "fail", response |-> PyNone, exc |-> x]

Outcomes == {Returned(r) : r \in Responses} \cup {Raised(x) : x \in Failures}

\* {}, {'k': 'v'} and an event json.dumps refuses, {'k': b''}
Events ==
    {PyDict(<<>>), PyDict(<< <<<<107>>, PyStr(<<118>>)>> >>),
     PyDict(<< <<<<107>>, PyBytes>> >>)}

Contexts == {"ctx1", "ctx2"}

\* What boto3.client('s3') raises when it fails: 'You must specify a region.'
ClientFailure ==
    Exc("NoRegionError",
        <<89, 111, 117, 32, 109, 117, 115, 116, 32, 115, 112, 101, 99, 105, 102, 121, 32,
          97, 32, 114, 101, 103, 105, 111, 110, 46>>)

\* ------------------------------------------------------------ state

VARIABLES
    pc,        \* where the invocation stands: "idle", "line20", "line23", "line27",
               \* "line30", "line32", "line40", "line41", "returned", "raised"
    event,     \* the parameter event
    context,   \* the parameter context
    s3,        \* the local s3
    response,  \* the local response
    buckets,   \* the local buckets
    e,         \* the exception bound by `except Exception as e`
    result,    \* the envelope the invocation returned
    raised,    \* the exception the invocation ended with
    trace,     \* what the invocation did to the outside, in order: print, list_buckets, return
    passed,    \* the event as the platform passed it
    outcome,   \* what the list_buckets call of this invocation did
    earlier    \* an earlier invocation, as observed from outside

vars ==
    <<pc, event, context, s3, response, buckets, e, result, raised, trace, passed,
      outcome, earlier>>

NoResult == [statusCode |-> 0, body |-> <<>>]

Envelope(code, body) == [statusCode |-> code, body |-> body]

Op(name, text) == [op |-> name, text |-> text]

NoEarlier ==
    [set |-> FALSE, event |-> PyNone, context |-> "", outcome |-> NotCalled,
     ended |-> "", result |-> NoResult]

\* The invocation that has just ended, as observed from outside.
Observed ==
    [set |-> TRUE, event |-> passed, context |-> context, outcome |-> outcome,
     ended |-> pc, result |-> result]

Ended == {"returned", "raised"}

Init ==
    /\ pc = "idle"
    /\ event = PyNone
    /\ context = ""
    /\ s3 = Unset
    /\ response = Unset
    /\ buckets = Unset
    /\ e = NoExc
    /\ result = NoResult
    /\ raised = NoExc
    /\ trace = <<>>
    /\ passed = PyNone
    /\ outcome = NotCalled
    /\ earlier = NoEarlier

\* ------------------------------------------------------------ the handler

\* The platform calls lambda_handler(ev, ctx): a new frame, no local assigned.
Call(ev, ctx) ==
    /\ pc' = "line20"
    /\ event' = ev
    /\ context' = ctx
    /\ passed' = ev
    /\ s3' = Unset
    /\ response' = Unset
    /\ buckets' = Unset
    /\ e' = NoExc
    /\ result' = NoResult
    /\ raised' = NoExc
    /\ trace' = <<>>
    /\ outcome' = NotCalled

Invoke ==
    /\ pc \in Ended \cup {"idle"}
    /\ \E ev \in Events, ctx \in Contexts : Call(ev, ctx)
    /\ UNCHANGED earlier

\* The same, the observer keeping the invocation that has just ended.
InvokeObserved ==
    /\ pc \in Ended
    /\ \E ev \in Events, ctx \in Contexts : Call(ev, ctx)
    /\ earlier' = Observed

\* An exception raised outside the try statement leaves the handler.
Propagate(exc) ==
    /\ raised' = exc
    /\ pc' = "raised"
    /\ UNCHANGED e

\* An exception raised inside the try statement: the except clause binds it,
\* or it leaves the handler.
RaiseInTry(exc) ==
    IF Catches(exc.cls)
    THEN /\ e' = exc
         /\ pc' = "line40"
         /\ UNCHANGED raised
    ELSE Propagate(exc)

\* The same statement placed inside the try statement.
LogEventInTry ==
    /\ pc = "line20"
    /\ IF Encodable(event)
       THEN /\ trace' = Append(trace, Op("print", ReceivedPrefix \o JsonDumpsIndent2(event)))
            /\ pc' = "line23"
            /\ UNCHANGED <<e, raised>>
       ELSE /\ RaiseInTry(TypeErr)
            /\ UNCHANGED trace
    /\ UNCHANGED <<event, context, s3, response, buckets, result, passed, outcome, earlier>>

\* print("Received event:", json.dumps(event, indent=2))
LogEvent ==
    /\ pc = "line20"
    /\ IF Encodable(event)
       THEN /\ trace' = Append(trace, Op("print", ReceivedPrefix \o JsonDumpsIndent2(event)))
            /\ pc' = "line23"
            /\ UNCHANGED <<e, raised>>
       ELSE /\ Propagate(TypeErr)
            /\ UNCHANGED trace
    /\ UNCHANGED <<event, context, s3, response, buckets, result, passed, outcome, earlier>>

\* s3 = boto3.client('s3')
CreateClient ==
    /\ pc = "line23"
    /\ \E ok \in BOOLEAN :
         IF ok
         THEN /\ s3' = PyStr(<<115, 51>>)
              /\ pc' = "line27"
              /\ UNCHANGED <<e, raised>>
         ELSE /\ Propagate(ClientFailure)
              /\ UNCHANGED s3
    /\ UNCHANGED <<event, context, response, buckets, result, trace, passed, outcome, earlier>>

\* response = s3.list_buckets(), failing once more after a first failure.
ListBucketsRetrying ==
    /\ pc = "line27"
    /\ \E o \in Outcomes :
         /\ outcome' = o
         /\ trace' = Append(trace, Op("list_buckets", <<>>))
         /\ IF o.kind = "ok"
            THEN /\ response' = o.response
                 /\ pc' = "line30"
                 /\ UNCHANGED <<e, raised>>
            ELSE IF outcome.kind = "none"
            THEN UNCHANGED <<pc, response, e, raised>>
            ELSE /\ RaiseInTry(o.exc)
                 /\ UNCHANGED response
    /\ UNCHANGED <<event, context, s3, buckets, result, passed, earlier>>

\* response = s3.list_buckets(), answered from the earlier invocation's response.
ListBucketsCached ==
    /\ pc = "line27"
    /\ \E o \in Outcomes :
         /\ outcome' = o
         /\ trace' = Append(trace, Op("list_buckets", <<>>))
         /\ IF o.kind = "ok"
            THEN /\ response' =
                      IF earlier.outcome.kind = "ok" THEN earlier.outcome.response
                      ELSE o.response
                 /\ pc' = "line30"
                 /\ UNCHANGED <<e, raised>>
            ELSE /\ RaiseInTry(o.exc)
                 /\ UNCHANGED response
    /\ UNCHANGED <<event, context, s3, buckets, result, passed, earlier>>

\* response = s3.list_buckets()
ListBuckets ==
    /\ pc = "line27"
    /\ \E o \in Outcomes :
         /\ outcome' = o
         /\ trace' = Append(trace, Op("list_buckets", <<>>))
         /\ IF o.kind = "ok"
            THEN /\ response' = o.response
                 /\ pc' = "line30"
                 /\ UNCHANGED <<e, raised>>
            ELSE /\ RaiseInTry(o.exc)
                 /\ UNCHANGED response
    /\ UNCHANGED <<event, context, s3, buckets, result, passed, earlier>>

RECURSIVE Dedup(_)
\* xs without the later copies of its elements.
Dedup(xs) ==
    IF xs = <<>> THEN <<>>
    ELSE LET front == Dedup(SubSeq(xs, 1, Len(xs) - 1))
             last == xs[Len(xs)]
         IN  IF \E i \in 1..Len(front) : front[i] = last THEN front
             ELSE Append(front, last)

\* The names, each once: list(dict.fromkeys(...)).
BucketNamesOnce(recs) == Dedup([i \in 1..Len(recs) |-> DictGet(recs[i], K_Name)])

\* [bucket['Name'] for bucket in recs], every record having a Name
BucketNames(recs) == [i \in 1..Len(recs) |-> DictGet(recs[i], K_Name)]

\* The records that have a Name.
WithName(recs) == SelectSeq(recs, LAMBDA r : DictHas(r, K_Name))

\* buckets = the names of the records that have one, the others skipped.
ExtractNamesSkipping ==
    /\ pc = "line30"
    /\ IF ~DictHas(response, K_Buckets)
       THEN /\ RaiseInTry(KeyErr(K_Buckets))
            /\ UNCHANGED buckets
       ELSE /\ buckets' = PyList(BucketNames(WithName(DictGet(response, K_Buckets).v)))
            /\ pc' = "line32"
            /\ UNCHANGED <<e, raised>>
    /\ UNCHANGED <<event, context, s3, response, result, trace, passed, outcome, earlier>>

\* buckets = [bucket['Name'] for bucket in response['Buckets']]
ExtractNames ==
    /\ pc = "line30"
    /\ IF ~DictHas(response, K_Buckets)
       THEN /\ RaiseInTry(KeyErr(K_Buckets))
            /\ UNCHANGED buckets
       ELSE LET recs == DictGet(response, K_Buckets).v
            IN  IF \E i \in 1..Len(recs) : ~DictHas(recs[i], K_Name)
                THEN /\ RaiseInTry(KeyErr(K_Name))
                     /\ UNCHANGED buckets
                ELSE /\ buckets' = PyList(BucketNames(recs))
                     /\ pc' = "line32"
                     /\ UNCHANGED <<e, raised>>
    /\ UNCHANGED <<event, context, s3, response, result, trace, passed, outcome, earlier>>

\* The success body with the event echoed in it, under 'event'.
SuccessBodyWithEvent(bs) ==
    PyDict(<< <<K_message, PyStr(SuccessMsg)>>, <<K_buckets, bs>>,
              <<<<101, 118, 101, 110, 116>>, event>> >>)

\* {'message': 'Successfully retrieved buckets', 'buckets': bs}
SuccessBody(bs) == PyDict(<< <<K_message, PyStr(SuccessMsg)>>, <<K_buckets, bs>> >>)

\* {'message': 'Error listing buckets'}, the exception's text left out.
ErrorBodyNoText(exc) == PyDict(<< <<K_message, PyStr(ErrorPrefix)>> >>)

\* {'message': f'Error listing buckets: {str(e)}'}
ErrorBody(exc) == PyDict(<< <<K_message, PyStr(ErrorPrefix \o Str(exc))>> >>)

\* return {'statusCode': 200, 'body': json.dumps({...})}
ReturnSuccess ==
    /\ pc = "line32"
    /\ IF Encodable(SuccessBody(buckets))
       THEN /\ result' = Envelope(200, JsonDumps(SuccessBody(buckets)))
            /\ trace' = Append(trace, Op("return", <<>>))
            /\ pc' = "returned"
            /\ UNCHANGED <<e, raised>>
       ELSE /\ RaiseInTry(TypeErr)
            /\ UNCHANGED <<result, trace>>
    /\ UNCHANGED <<event, context, s3, response, buckets, passed, outcome, earlier>>

\* print("Error listing buckets: "), the exception's text left out.
LogErrorNoText ==
    /\ pc = "line40"
    /\ trace' = Append(trace, Op("print", ErrorPrefix))
    /\ pc' = "line41"
    /\ UNCHANGED <<event, context, s3, response, buckets, e, result, raised, passed,
                   outcome, earlier>>

\* print(f"Error listing buckets: {str(e)}")
LogError ==
    /\ pc = "line40"
    /\ trace' = Append(trace, Op("print", ErrorPrefix \o Str(e)))
    /\ pc' = "line41"
    /\ UNCHANGED <<event, context, s3, response, buckets, e, result, raised, passed,
                   outcome, earlier>>

\* return {'statusCode': 500, 'body': json.dumps({...})}
ReturnError ==
    /\ pc = "line41"
    /\ result' = Envelope(500, JsonDumps(ErrorBody(e)))
    /\ trace' = Append(trace, Op("return", <<>>))
    /\ pc' = "returned"
    /\ UNCHANGED <<event, context, s3, response, buckets, e, raised, passed, outcome,
                   earlier>>

Next ==
    \/ Invoke
    \/ LogEvent
    \/ CreateClient
    \/ ListBuckets
    \/ ExtractNames
    \/ ReturnSuccess
    \/ LogError
    \/ ReturnError

\* One invocation after another.
Spec == Init /\ [][Next]_vars

NextObserved == Next \/ InvokeObserved

\* The same, with an observer that keeps one earlier invocation to compare with.
SpecObserved == Init /\ [][NextObserved]_vars

\* ------------------------------------------------------------ what is observed

\* How many times list_buckets was called in this invocation.
Calls == Len(SelectSeq(trace, LAMBDA a : a.op = "list_buckets"))

\* The lines printed in this invocation, in order.
Printed == SelectSeq(trace, LAMBDA a : a.op = "print")

\* Where in the trace the list_buckets call stands (0 for nowhere).
CallAt ==
    IF Calls = 0 THEN 0 ELSE CHOOSE i \in 1..Len(trace) : trace[i].op = "list_buckets"

\* The operations of the trace after position k.
OpsAfter(k) == [i \in 1..(Len(trace) - k) |-> trace[k + i].op]

IsPrefix(p, s) == Len(p) <= Len(s) /\ SubSeq(s, 1, Len(p)) = p

\* The records of a response that has Buckets.
RecordsOf(r) == DictGet(r, K_Buckets).v

\* A response as the service documents it: Buckets, and in every record a Name
\* that is a str.
WellFormed(r) ==
    /\ DictHas(r, K_Buckets)
    /\ \A i \in 1..Len(RecordsOf(r)) :
         /\ DictHas(RecordsOf(r)[i], K_Name)
         /\ DictGet(RecordsOf(r)[i], K_Name).t = "str"

\* The returned body, decoded.
Decoded == JsonLoads(result.body)

\* The pcs inside the try statement and its except clause, and after them.
FromTry == {"line27", "line30", "line32", "line40", "line41", "returned"}

\* ------------------------------------------------------------ claims

\* C1: when list_buckets returns a well-formed response, the invocation ends by
\* returning statusCode 200 and a body that decodes to exactly message =
\* 'Successfully retrieved buckets' and buckets = the records' Names, same
\* length, same order, duplicates kept ([] for no record).
C1_SuccessResponse ==
    (pc \in Ended /\ outcome.kind = "ok" /\ WellFormed(outcome.response)) =>
        /\ pc = "returned"
        /\ result.statusCode = 200
        /\ Decoded.ok
        /\ Decoded.val.t = "dict"
        /\ DictKeys(Decoded.val) = {K_message, K_buckets}
        /\ DictGet(Decoded.val, K_message) = PyStr(SuccessMsg)
        /\ DictGet(Decoded.val, K_buckets).t = "list"
        /\ Len(DictGet(Decoded.val, K_buckets).v) = Len(RecordsOf(outcome.response))
        /\ \A i \in 1..Len(RecordsOf(outcome.response)) :
             DictGet(Decoded.val, K_buckets).v[i]
                 = DictGet(RecordsOf(outcome.response)[i], K_Name)

\* A 200 was returned for two records of the same Name, one with escapes in it.
C1_Witness ==
    /\ pc = "returned"
    /\ result.statusCode = 200
    /\ outcome.kind = "ok"
    /\ RecordsOf(outcome.response) = <<Rec(N_x), Rec(N_x)>>

\* C2: when list_buckets raises an exception of text t, the invocation ends by
\* returning statusCode 500 and a body that decodes to an object whose only
\* field is message = 'Error listing buckets: ' followed by t (no buckets field).
C2_FailureResponse ==
    (pc \in Ended /\ outcome.kind = "fail") =>
        /\ pc = "returned"
        /\ result.statusCode = 500
        /\ Decoded.ok
        /\ Decoded.val.t = "dict"
        /\ DictKeys(Decoded.val) = {K_message}
        /\ DictGet(Decoded.val, K_message) = PyStr(ErrorPrefix \o outcome.exc.text)

\* A 500 was returned for a failure whose text has characters json.dumps escapes.
C2_Witness ==
    /\ pc = "returned"
    /\ outcome.kind = "fail"
    /\ outcome.exc.text = N_x

\* C3: however list_buckets fails, the exception does not leave the handler:
\* the invocation is in the except clause, where its next statement can run,
\* or it has returned an envelope; it never ends by raising.
C3_NeverRaises ==
    outcome.kind = "fail" =>
        /\ pc \in {"line40", "line41", "returned"}
        /\ raised = NoExc
        /\ e = outcome.exc
        /\ pc = "line40" => ENABLED LogError
        /\ pc = "line41" => ENABLED ReturnError
        /\ pc = "returned" => result # NoResult

\* A network failure (no ClientError) ended in a returned envelope.
C3_Witness ==
    /\ pc = "returned"
    /\ outcome.kind = "fail"
    /\ outcome.exc.cls = "EndpointConnectionError"
    /\ result.statusCode = 500

\* C4: every returned body is valid JSON and decodes back to the dict that was
\* encoded: {message, buckets} with buckets a list of str for 200, {message}
\* alone for 500.
C4_BodyRoundTrip ==
    pc = "returned" =>
        /\ Decoded.ok
        /\ result.statusCode = 200 =>
             /\ Decoded.val = SuccessBody(buckets)
             /\ DictKeys(Decoded.val) = {K_message, K_buckets}
             /\ DictGet(Decoded.val, K_buckets).t = "list"
             /\ \A i \in 1..Len(DictGet(Decoded.val, K_buckets).v) :
                  DictGet(Decoded.val, K_buckets).v[i].t = "str"
        /\ result.statusCode = 500 =>
             /\ Decoded.val = ErrorBody(e)
             /\ DictKeys(Decoded.val) = {K_message}
             /\ DictGet(Decoded.val, K_message).t = "str"

\* A 200 body was returned that holds a name with a quote, a backslash, a new
\* line and non-ASCII characters in it.
C4_Witness ==
    /\ pc = "returned"
    /\ result.statusCode = 200
    /\ buckets.v = <<PyStr(N_a), PyStr(N_x)>>

\* C5: list_buckets is called at most once in an invocation; after a failed call
\* the only things that follow are the error line and the return of the 500
\* envelope.
C5_AtMostOneCall ==
    /\ Calls <= 1
    /\ outcome.kind # "none" <=> Calls = 1
    /\ outcome.kind = "fail" =>
         /\ IsPrefix(OpsAfter(CallAt), <<"print", "return">>)
         /\ pc = "returned" => result.statusCode = 500

\* A failed call was followed by the return of an envelope, with one call made.
C5_Witness ==
    /\ pc = "returned"
    /\ outcome.kind = "fail"
    /\ Calls = 1
    /\ OpsAfter(CallAt) = <<"print", "return">>

\* C6: the event is used only for logging: two invocations in which
\* list_buckets did the same end the same way, with the same statusCode and the
\* same body, whatever their events and contexts; and the event is never modified.
C6_EventOnlyLogged ==
    /\ pc # "idle" => event = passed
    /\ (pc \in Ended /\ earlier.set /\ outcome.kind # "none" /\ earlier.outcome = outcome) =>
         /\ earlier.ended = pc
         /\ earlier.result.statusCode = result.statusCode
         /\ earlier.result.body = result.body

\* Two invocations with different events and contexts and the same list_buckets
\* outcome have returned.
C6_Witness ==
    /\ pc = "returned"
    /\ earlier.set
    /\ outcome.kind = "ok"
    /\ earlier.outcome = outcome
    /\ earlier.event # passed
    /\ earlier.context # context

\* C7: nothing is carried across invocations: an invocation starts with no local
\* assigned, and its response is the one an earlier invocation gave for the same
\* list_buckets outcome, whatever happened in between.
C7_NothingCarried ==
    /\ pc = "line20" =>
         /\ s3 = Unset
         /\ response = Unset
         /\ buckets = Unset
         /\ e = NoExc
         /\ result = NoResult
         /\ raised = NoExc
    /\ (pc \in Ended /\ earlier.set /\ earlier.outcome = outcome) => earlier.result = result

\* After an invocation in which list_buckets failed, a later one in which it
\* returned buckets has returned 200.
C7_Witness ==
    /\ pc = "returned"
    /\ earlier.set
    /\ earlier.outcome.kind = "fail"
    /\ outcome.kind = "ok"
    /\ result.statusCode = 200
    /\ Len(buckets.v) > 0

C9_StatusCodes ==
    /\ pc = "returned" =>
         /\ result.statusCode \in {200, 500}
         /\ result.statusCode = 200 <=>
              (outcome.kind = "ok" /\ WellFormed(outcome.response))
    /\ (outcome.kind = "ok" /\ ~WellFormed(outcome.response)) =>
         /\ pc # "raised"
         /\ pc = "returned" =>
              /\ result.statusCode = 500
              /\ Decoded.ok
              /\ DictKeys(Decoded.val) = {K_message}
              /\ IsPrefix(ErrorPrefix, DictGet(Decoded.val, K_message).v)

\* A 500 was returned for a response whose second record has no Name.
C9_Witness ==
    /\ pc = "returned"
    /\ result.statusCode = 500
    /\ outcome.kind = "ok"
    /\ DictHas(outcome.response, K_Buckets)
    /\ RecordsOf(outcome.response) = <<Rec(N_a), RecNoName>>

\* C10: the event is serialized and the client created before the try statement:
\* an invocation inside it has done both; a failure of either ends the
\* invocation with that exception, no envelope and no list_buckets call.
C10_GuardedRegion ==
    /\ pc \in FromTry =>
         /\ s3 # Unset
         /\ Len(trace) >= 1
         /\ trace[1] = Op("print", ReceivedPrefix \o JsonDumpsIndent2(passed))
    /\ (pc # "idle" /\ ~Encodable(passed)) => pc \in {"line20", "raised"}
    /\ pc = "raised" =>
         /\ result = NoResult
         /\ Calls = 0
         /\ outcome = NotCalled
         /\ e = NoExc
         /\ \/ ~Encodable(passed) /\ raised = TypeErr /\ trace = <<>> /\ s3 = Unset
            \/ Encodable(passed) /\ raised = ClientFailure /\ Len(trace) = 1 /\ s3 = Unset

\* An invocation ended with the TypeError of serializing its event.
C10_Witness ==
    /\ pc = "raised"
    /\ ~Encodable(passed)
    /\ raised = TypeErr

====
